---- MODULE Spec2Model ----
(***************************************************************************)
(* State-machine model of the arxiv-agent triage pipeline:                 *)
(*   tools/arxiv_client.py   windowed, paginated discovery                 *)
(*   agents/filter_agent.py  batched relevance filter                      *)
(*   agents/scorer_agent.py  batched quality scorer                        *)
(*   workflow.py             the orchestrator run_workflow                 *)
(*                                                                         *)
(* A paper travelling through the filter, the scorer and the orchestrator  *)
(* is represented by its arxiv_id (a positive integer); those stages read  *)
(* no other field of ArxivPaper for control flow.  The identity 0 stands   *)
(* for any identity that belongs to no paper of the run.                   *)
(*                                                                         *)
(* A reasoning-service reply is an input of the model: the call raises     *)
(* ("raise"), returns text holding no decodable JSON array ("text"), or    *)
(* returns text whose bracketed region decodes to a list of entries        *)
(* ("array").                                                              *)
(*                                                                         *)
(* Specifications:                                                         *)
(*   Spec        run_workflow from its first line to the entry of          *)
(*               score_papers (discovery taken as one step)                *)
(*   SpecSelect  run_workflow from the call of score_papers on             *)
(*   SpecFilter  filter_papers alone                                       *)
(*   SpecScore   score_papers alone                                        *)
(*   SpecFetch   fetch_arxiv_papers alone, page by page; there a paper is  *)
(*               a record of arxiv_id, published and categories            *)
(*                                                                         *)
(* send_status_email and send_status_webhook, which workflow.py imports,   *)
(* are defined in none of the source files; they are modelled as the       *)
(* collaborators spec.md describes: handed a status string, they answer    *)
(* with a success or a failure.                                            *)
(***************************************************************************)
EXTENDS Integers, Sequences, FiniteSets, TLC

\* ------------------------------------------------------------------ bounds
\* most papers handed to a batched stage
MaxPapers == 2
\* largest batch_size tried
MaxBatchSize == 2
\* a reply carries at most as many entries as the chunk sent has papers, plus
\* this many
ExtraEntries == 0

VARIABLES
    pc,              \* position of the running function; the name of the
                     \* exception once one has left the function uncaught
    papers,          \* filter_papers: the papers argument (run_workflow: papers)
    batch_size,      \* filter_papers: the batch_size argument
    i,               \* loop offset of the running batched function
    results,         \* results list of the running batched function
    total_batches,   \* filter_papers local
    failed_batches,  \* filter_papers local
    filter_result,   \* value returned by filter_papers
    calls,           \* reasoning-service calls issued so far, in order: the stage,
                     \* the offset of the chunk sent, whether the call raised
    relevant_papers,    \* run_workflow local; the papers argument of score_papers
    scorer_batch_size,  \* score_papers: the batch_size argument
    score_result,       \* value returned by score_papers
    top_papers,         \* run_workflow local
    \* fetch_arxiv_papers and _search_arxiv_with_date_range
    days_start,      \* argument: start of the window, in days ago
    days_end,        \* argument: end of the window, in days ago
    categories,      \* argument: the category filter, {} for none
    topics,          \* argument: the topics
    max_batches,     \* _search_arxiv_with_date_range: the page cap
    start_date,      \* fetch_arxiv_papers local
    end_date,        \* fetch_arxiv_papers local
    all_papers,      \* fetch_arxiv_papers local: dict arxiv_id -> paper
    topic_idx,       \* index of the topic being searched
    batch_num,       \* pages requested so far for the current topic
    offset,          \* _search_arxiv_with_date_range local
    matching_papers, \* _search_arxiv_with_date_range local
    requests,        \* corpus queries issued so far: topic index and start offset
    overwrote,       \* history: some all_papers[id] = paper hit a present key
    last_page,       \* history: what the last corpus query for the topic being
                     \* searched returned
    served,          \* history: the identities of the papers inside the window
                     \* and the category filter that the corpus has returned
    \* run_workflow
    email_configured,   \* settings: email_list, brevo_api_key and brevo_sender_email set
    webhook_configured, \* settings: webhook_url set
    score_threshold,    \* settings.score_threshold
    max_items,          \* settings.max_items
    notifications,      \* calls of the notification collaborators so far, in order
    returned,           \* value returned by run_workflow
    \* analyze_paper
    initial_score,      \* argument: the score the scorer gave
    paper_content,      \* argument: the extracted text, "" when there is none
    analyzer_reply,     \* the reasoning-service reply to the call of analyze_paper
    analysis,           \* value returned by analyze_paper
    \* _build_status_message
    status_args,        \* the arguments of a call of _build_status_message
    status_message      \* the lines of the string it returned

fetchArgs == <<days_start, days_end, categories, topics, max_batches>>
fetchVars == <<fetchArgs, start_date, end_date, all_papers, topic_idx, batch_num, offset,
               matching_papers, requests, overwrote, last_page, served>>
filterVars == <<papers, batch_size, total_batches, failed_batches, filter_result>>
scoreVars == <<relevant_papers, scorer_batch_size, score_result, top_papers>>

flowArgs == <<email_configured, webhook_configured, score_threshold, max_items>>
flowVars == <<flowArgs, notifications, returned>>
analyzeVars == <<initial_score, paper_content, analyzer_reply, analysis>>
statusVars == <<status_args, status_message>>

vars == <<pc, i, results, calls, filterVars, scoreVars, fetchVars, flowVars, analyzeVars, statusVars>>

\* ----------------------------------------------------------------- helpers
Min(a, b) == IF a < b THEN a ELSE b
Max(a, b) == IF a > b THEN a ELSE b

SeqsUpTo(S, k) == UNION {[1..m -> S] : m \in 0..k}

\* papers[i:i + batch_size] with a 0-based offset i
Slice(s, from, size) == SubSeq(s, from + 1, Min(Len(s), from + size))

\* the input lists: n papers with pairwise distinct identities 1..n
PaperList(n) == [k \in 1..n |-> k]

IdsOf(s) == {s[k] : k \in 1..Len(s)}

\* A dict is a sequence of [key, val] records with distinct keys, in insertion
\* order (Python dicts iterate in insertion order; assigning to a present key
\* keeps its position and replaces its value).
DictKeys(d) == {d[k].key : k \in 1..Len(d)}

DictSet(d, key, val) ==
    IF key \in DictKeys(d)
    THEN [k \in 1..Len(d) |-> IF d[k].key = key THEN [key |-> key, val |-> val] ELSE d[k]]
    ELSE Append(d, [key |-> key, val |-> val])

NoResult == [papers |-> <<>>, total_batches |-> 0, failed_batches |-> 0]

\* ------------------------------------------------------------ filter agent
\* JSON values an entry can carry under "is_relevant": one pydantic reads as
\* true, one it reads as false, the key absent, or a value FilteredPaper
\* rejects (null, a list, a number other than 0/1, ...).
RelValues == {"true", "false", "missing", "invalid"}

FilterEntries(n) ==
    [kind : {"obj"}, id : 0..n, is_relevant : RelValues]
    \cup {[kind |-> "noid", id |-> 0, is_relevant |-> "missing"],
          [kind |-> "nondict", id |-> 0, is_relevant |-> "missing"]}

\* the replies to a call that sent a chunk of len papers out of n
FilterResponses(n, len) ==
    {[kind |-> "raise", entries |-> <<>>], [kind |-> "text", entries |-> <<>>]}
    \cup {[kind |-> "array", entries |-> e] :
              e \in SeqsUpTo(FilterEntries(n), len + ExtraEntries)}

\* {p.arxiv_id: True for p in papers}
FilterFallbackMap(batch) == [k \in 1..Len(batch) |-> [key |-> batch[k], val |-> "true"]]

\* the dict comprehension of _parse_batch_response, entry by entry; the first
\* entry that cannot be read decides the exception
RECURSIVE FilterComprehension(_, _, _)
FilterComprehension(entries, k, acc) ==
    IF k > Len(entries) THEN [exc |-> "none", map |-> acc]
    ELSE LET item == entries[k] IN
         IF item.kind = "nondict" THEN [exc |-> "TypeError", map |-> <<>>]
         ELSE IF item.kind = "noid" THEN [exc |-> "KeyError", map |-> <<>>]
         ELSE FilterComprehension(entries, k + 1,
                  DictSet(acc, item.id,
                          IF item.is_relevant = "missing" THEN "true" ELSE item.is_relevant))

\* _parse_batch_response(response, papers) of filter_agent.py
FilterParseBatchResponse(response, batch) ==
    IF response.kind = "text" THEN [exc |-> "none", map |-> FilterFallbackMap(batch)]
    ELSE LET r == FilterComprehension(response.entries, 1, <<>>) IN
         IF r.exc = "KeyError" THEN [exc |-> "none", map |-> FilterFallbackMap(batch)]
         ELSE r

\* _filter_batch whose except branch forgets to report the failure
FilterBatch_Unflagged(response, batch) ==
    IF response.kind = "raise"
    THEN [map |-> FilterFallbackMap(batch), failed |-> FALSE]
    ELSE LET r == FilterParseBatchResponse(response, batch) IN
         IF r.exc # "none"
         THEN [map |-> FilterFallbackMap(batch), failed |-> TRUE]
         ELSE [map |-> r.map, failed |-> FALSE]

\* _filter_batch(model, papers, acceptance_criteria): (relevance map, failed)
FilterBatch(response, batch) ==
    IF response.kind = "raise"
    THEN [map |-> FilterFallbackMap(batch), failed |-> TRUE]
    ELSE LET r == FilterParseBatchResponse(response, batch) IN
         IF r.exc # "none"
         THEN [map |-> FilterFallbackMap(batch), failed |-> TRUE]
         ELSE [map |-> r.map, failed |-> FALSE]

FilteredPaper(paper, is_relevant) == [paper |-> paper, is_relevant |-> is_relevant]

\* first loop of the body: one FilteredPaper per entry of batch_results whose id
\* is a key of paper_map (the map of ALL papers of the call)
FilterKnownEntries(map, all) ==
    LET keep == SelectSeq(map, LAMBDA e : e.key \in IdsOf(all))
    IN [k \in 1..Len(keep) |-> FilteredPaper(keep[k].key, keep[k].val = "true")]

\* FilteredPaper(...) raises a ValidationError on a value that is no boolean
FilterValidationError(map, all) ==
    \E k \in 1..Len(map) : map[k].key \in IdsOf(all) /\ map[k].val = "invalid"

\* a second loop that marks the papers the reply left out as irrelevant
FilterMissing_Irrelevant(map, batch) ==
    LET miss == SelectSeq(batch, LAMBDA p : p \notin DictKeys(map))
    IN [k \in 1..Len(miss) |-> FilteredPaper(miss[k], FALSE)]

\* second loop of the body: the papers of the batch absent from batch_results
FilterMissing(map, batch) ==
    LET miss == SelectSeq(batch, LAMBDA p : p \notin DictKeys(map))
    IN [k \in 1..Len(miss) |-> FilteredPaper(miss[k], TRUE)]

\* a count that forgets the last, smaller chunk
CeilDiv_Floor(n, size) == n \div size

\* (len(papers) + batch_size - 1) // batch_size
CeilDiv(n, size) == (n + size - 1) \div size

\* filter_papers, lines 48-51
FilterEnter ==
    /\ pc = "call_filter"
    /\ results' = <<>>
    /\ total_batches' = CeilDiv(Len(papers), batch_size)
    /\ failed_batches' = 0
    /\ i' = 0
    /\ pc' = "filter_loop"
    /\ UNCHANGED <<papers, batch_size, filter_result, calls, scoreVars, fetchVars, flowVars, analyzeVars, statusVars>>

\* a loop that issues the call for a chunk and moves on to the next chunk
\* without waiting for the reply: no verdict of the chunk is recorded
FilterLoop_NoWait ==
    /\ pc = "filter_loop"
    /\ i < Len(papers)
    /\ calls' = Append(calls, [stage |-> "filter", start |-> i, raised |-> FALSE])
    /\ i' = i + batch_size
    /\ UNCHANGED <<pc, results, failed_batches, papers, batch_size, total_batches, filter_result, scoreVars, fetchVars, flowVars, analyzeVars, statusVars>>

\* one iteration of the loop of filter_papers, lines 53-71
FilterLoop ==
    /\ pc = "filter_loop"
    /\ i < Len(papers)
    /\ \E response \in FilterResponses(Len(papers), Len(Slice(papers, i, batch_size))) :
         LET batch == Slice(papers, i, batch_size)
             out == FilterBatch(response, batch)
         IN /\ calls' = Append(calls, [stage |-> "filter", start |-> i,
                                       raised |-> response.kind = "raise"])
            /\ failed_batches' = IF out.failed THEN failed_batches + 1 ELSE failed_batches
            /\ IF FilterValidationError(out.map, papers)
               THEN /\ pc' = "ValidationError"
                    /\ UNCHANGED <<results, i>>
               ELSE /\ results' = results \o FilterKnownEntries(out.map, papers)
                                          \o FilterMissing(out.map, batch)
                    /\ i' = i + batch_size
                    /\ pc' = "filter_loop"
    /\ UNCHANGED <<papers, batch_size, total_batches, filter_result, scoreVars, fetchVars, flowVars, analyzeVars, statusVars>>

\* filter_papers, lines 73-80
FilterReturn ==
    /\ pc = "filter_loop"
    /\ i >= Len(papers)
    /\ filter_result' = [papers |-> results, total_batches |-> total_batches,
                         failed_batches |-> failed_batches]
    /\ pc' = "filtered"
    /\ UNCHANGED <<papers, batch_size, i, results, total_batches, failed_batches, calls,
                   scoreVars, fetchVars, flowVars, analyzeVars, statusVars>>

\* ------------------------------------------------------------ scorer agent
\* integers a reply can carry under "score": one below the range, one above it
\* (an absent score gives the in-range 50)
RawScores == {-5, 150}

\* An entry's "score" is an integer ("int"), absent ("missing"), or a string
\* that int() rejects with ValueError ("badstr").  Its "justification" is a
\* string or absent ("str"), or a value ScoredPaper rejects ("invalid").  An
\* entry that is no JSON object ("nondict") stands for every reply whose
\* exception only the except Exception of _score_batch catches.
ScoreEntries(n) ==
    [kind : {"obj"}, id : 0..n, score_kind : {"int"}, score : RawScores,
     justification : {"str"}]
    \cup [kind : {"obj"}, id : 0..n, score_kind : {"missing", "badstr"},
          score : {0}, justification : {"str"}]
    \cup [kind : {"obj"}, id : 0..n, score_kind : {"int"}, score : {150},
          justification : {"invalid"}]
    \cup [kind : {"noid", "nondict"}, id : {0}, score_kind : {"int"}, score : {150},
          justification : {"str"}]

\* the replies to a call that sent a chunk of len papers out of n
ScoreResponses(n, len) ==
    {[kind |-> "raise", entries |-> <<>>], [kind |-> "text", entries |-> <<>>]}
    \cup {[kind |-> "array", entries |-> e] :
              e \in SeqsUpTo(ScoreEntries(n), len + ExtraEntries)}

DefaultScore == 50

\* a clamp that forgets the upper bound
Clamp_NoUpper(value) == Max(1, value)

\* max(1, min(100, value))
Clamp(value) == Max(1, Min(100, value))

\* {p.arxiv_id: {"score": 50, "justification": ""} for p in papers}
ScoreFallbackMap(batch) ==
    [k \in 1..Len(batch) |->
        [key |-> batch[k], val |-> [score |-> DefaultScore, justification |-> "str"]]]

\* the loop over data of _parse_batch_response, entry by entry: the score is
\* read first, then the id, then the justification
RECURSIVE ScoreParseLoop(_, _, _)
ScoreParseLoop(entries, k, acc) ==
    IF k > Len(entries) THEN [exc |-> "none", map |-> acc]
    ELSE LET item == entries[k] IN
         IF item.kind = "nondict" THEN [exc |-> "AttributeError", map |-> <<>>]
         ELSE IF item.score_kind = "badstr" THEN [exc |-> "ValueError", map |-> <<>>]
         ELSE IF item.kind = "noid" THEN [exc |-> "KeyError", map |-> <<>>]
         ELSE LET score == Clamp(IF item.score_kind = "missing"
                                 THEN DefaultScore ELSE item.score)
              IN ScoreParseLoop(entries, k + 1,
                     DictSet(acc, item.id,
                             [score |-> score, justification |-> item.justification]))

\* _parse_batch_response(response, papers) of scorer_agent.py
ScoreParseBatchResponse(response, batch) ==
    IF response.kind = "text" THEN [exc |-> "none", map |-> ScoreFallbackMap(batch)]
    ELSE LET r == ScoreParseLoop(response.entries, 1, <<>>) IN
         IF r.exc \in {"ValueError", "KeyError"}
         THEN [exc |-> "none", map |-> ScoreFallbackMap(batch)]
         ELSE r

\* _score_batch(model, papers, acceptance_criteria): the scores map
ScoreBatch(response, batch) ==
    IF response.kind = "raise" THEN ScoreFallbackMap(batch)
    ELSE LET r == ScoreParseBatchResponse(response, batch) IN
         IF r.exc # "none" THEN ScoreFallbackMap(batch) ELSE r.map

ScoredPaper(paper, score) == [paper |-> paper, score |-> score]

\* first loop of the body: one ScoredPaper per entry of batch_results whose id is
\* a key of paper_map (the map of ALL papers of the call)
ScoreKnownEntries(map, all) ==
    LET keep == SelectSeq(map, LAMBDA e : e.key \in IdsOf(all))
    IN [k \in 1..Len(keep) |-> ScoredPaper(keep[k].key, keep[k].val.score)]

\* ScoredPaper(...) raises a ValidationError on a justification that is no string
ScoreValidationError(map, all) ==
    \E k \in 1..Len(map) : map[k].key \in IdsOf(all) /\ map[k].val.justification = "invalid"

\* second loop of the body: the papers of the batch absent from batch_results
ScoreMissing(map, batch) ==
    LET miss == SelectSeq(batch, LAMBDA p : p \notin DictKeys(map))
    IN [k \in 1..Len(miss) |-> ScoredPaper(miss[k], DefaultScore)]

\* results.sort(key=lambda x: x.score, reverse=True): a stable sort, equal
\* scores keep their order
RECURSIVE SortByScoreDesc(_)
SortByScoreDesc(s) ==
    IF Len(s) <= 1 THEN s
    ELSE LET rest == SortByScoreDesc(SubSeq(s, 1, Len(s) - 1))
             x == s[Len(s)]
             before == SelectSeq(rest, LAMBDA y : y.score >= x.score)
             after == SelectSeq(rest, LAMBDA y : y.score < x.score)
         IN before \o <<x>> \o after

\* score_papers, lines 48-49
ScoreEnter ==
    /\ pc = "call_score"
    /\ results' = <<>>
    /\ i' = 0
    /\ pc' = "score_loop"
    /\ UNCHANGED <<calls, filterVars, scoreVars, fetchVars, flowVars, analyzeVars, statusVars>>

\* one iteration of the loop of score_papers, lines 51-69
ScoreLoop ==
    /\ pc = "score_loop"
    /\ i < Len(relevant_papers)
    /\ \E response \in ScoreResponses(Len(relevant_papers),
                                      Len(Slice(relevant_papers, i, scorer_batch_size))) :
         LET batch == Slice(relevant_papers, i, scorer_batch_size)
             map == ScoreBatch(response, batch)
         IN /\ calls' = Append(calls, [stage |-> "score", start |-> i,
                                       raised |-> response.kind = "raise"])
            /\ IF ScoreValidationError(map, relevant_papers)
               THEN /\ pc' = "ValidationError"
                    /\ UNCHANGED <<results, i>>
               ELSE /\ results' = results \o ScoreKnownEntries(map, relevant_papers)
                                          \o ScoreMissing(map, batch)
                    /\ i' = i + scorer_batch_size
                    /\ pc' = "score_loop"
    /\ UNCHANGED <<filterVars, scoreVars, fetchVars, flowVars, analyzeVars, statusVars>>

\* score_papers, lines 71-74: sort and return the list
ScoreReturn ==
    /\ pc = "score_loop"
    /\ i >= Len(relevant_papers)
    /\ score_result' = SortByScoreDesc(results)
    /\ pc' = "scored"
    /\ UNCHANGED <<i, results, calls, filterVars, relevant_papers, scorer_batch_size,
                   top_papers, fetchVars, flowVars, analyzeVars, statusVars>>

\* ---------------------------------------------------------- analyzer agent
\* What a key of the decoded JSON object can carry.  "rating": absent
\* ("missing"), a number ("int"), a string int() rejects with ValueError
\* ("badstr"), or null, on which int() raises TypeError ("null").  A text key:
\* absent ("missing"), a string ("str"), or a value PaperAnalysis rejects
\* ("invalid").
RatingKinds == {"missing", "int", "badstr", "null"}
RawRatings == {-5, 70, 150}

AnalyzerObjects ==
    [kind : {"object"}, rating_kind : {"int"}, rating : RawRatings,
     rating_justification : {"str", "missing", "invalid"},
     summary : {"str", "missing"},
     authors_affiliations : {"str", "missing"},
     community_summary : {"str", "missing"}]
    \cup [kind : {"object"}, rating_kind : RatingKinds \ {"int"}, rating : {0},
          rating_justification : {"str", "missing", "invalid"},
          summary : {"str", "missing"},
          authors_affiliations : {"str", "missing"},
          community_summary : {"str", "missing"}]

\* an object with every key absent: the {} of _parse_analyzer_response
EmptyObject ==
    [kind |-> "object", rating_kind |-> "missing", rating |-> 0,
     rating_justification |-> "missing", summary |-> "missing",
     authors_affiliations |-> "missing", community_summary |-> "missing"]

\* a reply that is no object: the call raised ("raise"), or the text holds no
\* decodable JSON object ("text")
NoObject(kind) == [EmptyObject EXCEPT !.kind = kind]

NoReply == NoObject("none")

\* the replies to the call of analyze_paper
AnalyzerResponses == {NoObject("raise"), NoObject("text")} \cup AnalyzerObjects

\* a parse that keeps the rating as the reply gave it
ParseAnalyzerResponse_NoClamp(response) ==
    IF response.kind = "text" THEN [exc |-> "none", data |-> EmptyObject]
    ELSE IF response.rating_kind = "badstr" THEN [exc |-> "none", data |-> EmptyObject]
    ELSE IF response.rating_kind = "null" THEN [exc |-> "TypeError", data |-> EmptyObject]
    ELSE [exc |-> "none", data |-> response]

\* _parse_analyzer_response(response), the call having returned a text
ParseAnalyzerResponse(response) ==
    IF response.kind = "text" THEN [exc |-> "none", data |-> EmptyObject]
    ELSE IF response.rating_kind = "badstr" THEN [exc |-> "none", data |-> EmptyObject]
    ELSE IF response.rating_kind = "null" THEN [exc |-> "TypeError", data |-> EmptyObject]
    ELSE IF response.rating_kind = "int"
         THEN [exc |-> "none", data |-> [response EXCEPT !.rating = Clamp(response.rating)]]
    ELSE [exc |-> "none", data |-> response]

PaperAnalysis(score, score_justification, summary, authors_affiliations, community_feedback, paper_content_summary) ==
    [score |-> score, score_justification |-> score_justification, summary |-> summary,
     authors_affiliations |-> authors_affiliations,
     community_feedback |-> community_feedback,
     paper_content_summary |-> paper_content_summary]

NoAnalysis == PaperAnalysis(0, "", "", "", "", "")

\* lines 102-109: the PaperAnalysis of the except branch
AnalysisFallback(score) ==
    PaperAnalysis(score, "Analysis failed", "paper.abstract[:200]", "paper.authors joined",
                  "community_feedback.feedback_summary", "")

\* line 63 and line 98
ContentSummary(content) ==
    IF content = "" THEN "Paper content not available." ELSE "paper_content[:2000]"

\* lines 91-99: the PaperAnalysis built from the parsed reply
AnalysisOf(result, score, content) ==
    PaperAnalysis(
        IF result.rating_kind = "missing" THEN score ELSE result.rating,
        IF result.rating_justification = "missing" THEN "" ELSE "reply rating_justification",
        IF result.summary = "missing" THEN "" ELSE "reply summary",
        IF result.authors_affiliations = "missing"
            THEN "paper.authors joined" ELSE "reply authors_affiliations",
        IF result.community_summary = "missing"
            THEN "community_feedback.feedback_summary" ELSE "reply community_summary",
        ContentSummary(content))

\* analyze_paper, lines 87-109
AnalyzePaper(response, score, content) ==
    IF response.kind = "raise" THEN AnalysisFallback(score)
    ELSE LET r == ParseAnalyzerResponse(response) IN
         IF r.exc # "none" THEN AnalysisFallback(score)
         ELSE IF r.data.rating_justification = "invalid" THEN AnalysisFallback(score)
         ELSE AnalysisOf(r.data, score, content)

\* analysis_to_digest(analysis): the digest entry of one analysis
AnalysisToDigest(item) ==
    [summary |-> IF item.summary = "" THEN "paper.abstract[:300]" ELSE item.summary,
     authors |-> item.authors_affiliations,
     rating |-> item.score,
     rating_justification |-> item.score_justification,
     community_reputation |-> item.community_feedback]

\* analyze_paper, from its call to its return
Analyze ==
    /\ pc = "call_analyze"
    /\ \E response \in AnalyzerResponses :
         /\ analyzer_reply' = response
         /\ calls' = Append(calls, [stage |-> "analyzer", start |-> 0,
                                    raised |-> response.kind = "raise"])
         /\ analysis' = AnalyzePaper(response, initial_score, paper_content)
    /\ pc' = "analyzed"
    /\ UNCHANGED <<i, results, filterVars, scoreVars, fetchVars, flowVars, initial_score,
                   paper_content, statusVars>>

\* ------------------------------------------------------------ run_workflow
\* config.py: the defaults of score_threshold and max_items
ConfigScoreThreshold == 50
ConfigMaxItems == 5
\* largest max_items tried
MaxItems == 2

ThresholdChoices == {ConfigScoreThreshold, 100}

\* One line of a status message: the text of the line with its numbers left
\* out, and the numbers.
Line(text, a, b) == [text |-> text, a |-> a, b |-> b]

\* the message of the empty-discovery branch, lines 51-54: a one-line string
NoPapersMessage ==
    <<Line("No papers found from arxiv for the specified search criteria.", 0, 0)>>

NoRelevantReason == "No papers passed the relevance filter."

\* lines 168-169
CaveatText ==
    "Note: Connection errors may have affected paper scoring. Papers with failed scoring default to score 50."

\* a message whose caveat looks at the filter's failures only
BuildStatusMessage_FilterOnly(reason, total_papers, filter_failed, filter_total, scorer_failed, scorer_total) ==
    <<Line(reason, 0, 0), Line("", 0, 0),
      Line("Papers fetched from arxiv: {a}", total_papers, 0)>>
    \o (IF filter_total > 0
        THEN IF filter_failed > 0
             THEN <<Line("Filter errors: {a}/{b} batches failed",
                         filter_failed, filter_total)>>
             ELSE <<Line("Filter: {a} batches processed successfully",
                         filter_total, 0)>>
        ELSE <<>>)
    \o (IF scorer_total > 0
        THEN IF scorer_failed > 0
             THEN <<Line("Scorer errors: {a}/{b} batches failed",
                         scorer_failed, scorer_total)>>
             ELSE <<Line("Scorer: {a} batches processed successfully",
                         scorer_total, 0)>>
        ELSE <<>>)
    \o (IF filter_failed > 0
        THEN <<Line("", 0, 0),
               Line(CaveatText, 0, 0)>>
        ELSE <<>>)

\* _build_status_message, lines 140-172: the lines that "\n".join puts together
BuildStatusMessage(reason, total_papers, filter_failed, filter_total, scorer_failed, scorer_total) ==
    <<Line(reason, 0, 0), Line("", 0, 0),
      Line("Papers fetched from arxiv: {a}", total_papers, 0)>>
    \o (IF filter_total > 0
        THEN IF filter_failed > 0
             THEN <<Line("Filter errors: {a}/{b} batches failed",
                         filter_failed, filter_total)>>
             ELSE <<Line("Filter: {a} batches processed successfully",
                         filter_total, 0)>>
        ELSE <<>>)
    \o (IF scorer_total > 0
        THEN IF scorer_failed > 0
             THEN <<Line("Scorer errors: {a}/{b} batches failed",
                         scorer_failed, scorer_total)>>
             ELSE <<Line("Scorer: {a} batches processed successfully",
                         scorer_total, 0)>>
        ELSE <<>>)
    \o (IF filter_failed > 0 \/ scorer_failed > 0
        THEN <<Line("", 0, 0),
               Line(CaveatText, 0, 0)>>
        ELSE <<>>)

\* the arguments of a call: the reason, the number of papers fetched and the
\* failed/total counters of the two stages
StatusArgs ==
    {a \in [reason : {NoRelevantReason, "No papers met the score threshold ({a})."},
            total_papers : 0..MaxPapers,
            filter_failed_batches : 0..MaxPapers, filter_total_batches : 0..MaxPapers,
            scorer_failed_batches : 0..MaxPapers, scorer_total_batches : 0..MaxPapers] :
        /\ a.filter_failed_batches <= a.filter_total_batches
        /\ a.scorer_failed_batches <= a.scorer_total_batches
        /\ a.filter_total_batches <= a.total_papers
        /\ a.scorer_total_batches <= a.total_papers}

NoStatusArgs ==
    [reason |-> "", total_papers |-> 0, filter_failed_batches |-> 0,
     filter_total_batches |-> 0, scorer_failed_batches |-> 0, scorer_total_batches |-> 0]

\* a call of _build_status_message, lines 140-172
BuildMessage ==
    /\ pc = "call_build"
    /\ status_message' = BuildStatusMessage(status_args.reason, status_args.total_papers,
                                            status_args.filter_failed_batches,
                                            status_args.filter_total_batches,
                                            status_args.scorer_failed_batches,
                                            status_args.scorer_total_batches)
    /\ pc' = "built"
    /\ UNCHANGED <<i, results, calls, filterVars, scoreVars, fetchVars, flowVars, analyzeVars,
                   status_args>>

\* send_status_email(message, ...): the collaborator is handed the message and
\* answers with a NotificationResult, success or not
SendStatusEmail(message, success) ==
    [channel |-> "email", kind |-> "status", message |-> message, success |-> success]

\* send_status_webhook(message, webhook_url)
SendStatusWebhook(message, success) ==
    [channel |-> "webhook", kind |-> "status", message |-> message, success |-> success]

\* _send_status_notifications, lines 175-213: the collaborator calls it makes
SendStatusNotifications(message, email_success, webhook_success) ==
    (IF email_configured THEN <<SendStatusEmail(message, email_success)>> ELSE <<>>)
    \o (IF webhook_configured THEN <<SendStatusWebhook(message, webhook_success)>> ELSE <<>>)

\* a workflow that forgets the test of line 49
Discover_Unguarded ==
    /\ pc = "start"
    /\ \E n \in 0..MaxPapers : papers' = PaperList(n)
    /\ pc' = "call_filter"
    /\ UNCHANGED <<i, results, calls, batch_size, total_batches, failed_batches,
                   filter_result, scoreVars, fetchVars, flowVars, analyzeVars, statusVars>>

\* lines 41-49: papers = fetch_arxiv_papers(...) and the test "if not papers".
\* The list returned has pairwise distinct identities; how fetch_arxiv_papers
\* builds it is followed step by step under SpecFetch.
Discover ==
    /\ pc = "start"
    /\ \E n \in 0..MaxPapers : papers' = PaperList(n)
    /\ pc' = IF papers' = <<>> THEN "report_no_papers" ELSE "call_filter"
    /\ UNCHANGED <<i, results, calls, batch_size, total_batches, failed_batches,
                   filter_result, scoreVars, fetchVars, flowVars, analyzeVars, statusVars>>

\* lines 50-55: the status notifications of the empty discovery, return []
ReportNoPapers ==
    /\ pc = "report_no_papers"
    /\ \E email_success \in BOOLEAN, webhook_success \in BOOLEAN :
         notifications' = notifications
             \o SendStatusNotifications(NoPapersMessage, email_success, webhook_success)
    /\ returned' = <<>>
    /\ pc' = "returned"
    /\ UNCHANGED <<i, results, calls, filterVars, scoreVars, fetchVars, flowArgs, analyzeVars, statusVars>>

\* [f.paper for f in filter_result.papers if f.is_relevant]
RelevantPapers(filtered) ==
    LET keep == SelectSeq(filtered, LAMBDA f : f.is_relevant)
    IN [k \in 1..Len(keep) |-> keep[k].paper]

\* a workflow that forgets the test of line 70
CollectRelevant_Unguarded ==
    /\ pc = "filtered"
    /\ relevant_papers' = RelevantPapers(filter_result.papers)
    /\ pc' = "call_score"
    /\ UNCHANGED <<i, results, calls, filterVars, scorer_batch_size, score_result,
                   top_papers, fetchVars, flowVars, analyzeVars, statusVars>>

\* lines 66-70: relevant_papers and the test "if not relevant_papers"
CollectRelevant ==
    /\ pc = "filtered"
    /\ relevant_papers' = RelevantPapers(filter_result.papers)
    /\ pc' = IF relevant_papers' = <<>> THEN "report_no_relevant" ELSE "call_score"
    /\ UNCHANGED <<i, results, calls, filterVars, scorer_batch_size, score_result,
                   top_papers, fetchVars, flowVars, analyzeVars, statusVars>>

\* a report that, after the status message, also sends a digest
ReportNoRelevant_AlsoDigest ==
    /\ pc = "report_no_relevant"
    /\ LET message == BuildStatusMessage(NoRelevantReason, Len(papers),
                                         filter_result.failed_batches,
                                         filter_result.total_batches, 0, 0)
       IN \E email_success \in BOOLEAN, webhook_success \in BOOLEAN :
            notifications' = notifications
                \o SendStatusNotifications(message, email_success, webhook_success)
                \o <<[channel |-> "webhook", kind |-> "digest", message |-> <<>>,
                      success |-> webhook_success]>>
    /\ returned' = <<>>
    /\ pc' = "returned"
    /\ UNCHANGED <<i, results, calls, filterVars, scoreVars, fetchVars, flowArgs, analyzeVars, statusVars>>

\* lines 71-81: the status notifications of the empty filter result, return []
ReportNoRelevant ==
    /\ pc = "report_no_relevant"
    /\ LET message == BuildStatusMessage(NoRelevantReason, Len(papers),
                                         filter_result.failed_batches,
                                         filter_result.total_batches, 0, 0)
       IN \E email_success \in BOOLEAN, webhook_success \in BOOLEAN :
            notifications' = notifications
                \o SendStatusNotifications(message, email_success, webhook_success)
    /\ returned' = <<>>
    /\ pc' = "returned"
    /\ UNCHANGED <<i, results, calls, filterVars, scoreVars, fetchVars, flowArgs, analyzeVars, statusVars>>

\* ---------------------------------------------- run_workflow, lines 91-108
\* [s for s in score_result.papers if s.score >= settings.score_threshold]
Qualified(scored, threshold) ==
    SelectSeq(scored, LAMBDA s : s.score >= threshold)

\* qualified[:settings.max_items], for max_items >= 0
TopPapers(scored, threshold, limit) ==
    LET qualified == Qualified(scored, threshold)
    IN SubSeq(qualified, 1, Min(limit, Len(qualified)))

\* Of the attributes run_workflow reads from score_result (papers,
\* failed_batches, total_batches), those the value score_papers returns has:
\* line 74 of scorer_agent.py returns results, a list, which has none of them.
ScoreResultFields == {}

\* Line 92 reads score_result.papers.  score_papers returned a list, which has
\* no attribute papers: the read raises AttributeError, which run_workflow does
\* not catch, before any threshold is applied.
SelectTop ==
    /\ pc = "scored"
    /\ "papers" \notin ScoreResultFields
    /\ pc' = "AttributeError"
    /\ UNCHANGED <<i, results, calls, filterVars, scoreVars, fetchVars, flowVars, analyzeVars, statusVars>>

\* ------------------------------------------------------- discovery fetcher
\* the clock reading datetime.now(timezone.utc), in days
Now == 4
\* most papers one corpus query returns
PageLen == 2
\* largest page cap max_batches tried (10 in the source, never overridden)
MaxPages == 2
\* the batch_size of _search_arxiv_with_date_range: the step of the offset
PageSize == 200

Paper(arxiv_id, published, cats) ==
    [arxiv_id |-> arxiv_id, published |-> published, categories |-> cats]

\* the papers the corpus may return, as _parse_entry builds them: published
\* two, one and three days ago and today, two category tags
Corpus ==
    {Paper(1, Now - 2, {"cs.AI"}), Paper(2, Now - 1, {"math.CO"}),
     Paper(3, Now - 3, {"cs.AI"}), Paper(4, Now, {"cs.AI"})}

\* what _search_arxiv may return for one query: any list of parsed papers; the
\* empty list also stands for an HTTP error
Pages == SeqsUpTo(Corpus, PageLen)

DayChoices == {1, 2}
CategoryChoices == {{}, {"cs.AI"}}
TopicChoices == {<<>>, <<"agents">>, <<"agents", "llm">>}

\* the identities of the papers of a page that lie inside the window asked for
\* and carry a category of the filter, if there is one
ServedInWindow(page) ==
    {page[k].arxiv_id : k \in {j \in 1..Len(page) :
        /\ Now - days_start <= page[j].published
        /\ page[j].published <= Now - days_end
        /\ categories = {} \/ page[j].categories \cap categories # {}}}

\* min(p.published for p in papers)
RECURSIVE OldestInBatch(_)
OldestInBatch(page) ==
    IF Len(page) = 1 THEN page[1].published
    ELSE Min(page[1].published, OldestInBatch(Tail(page)))

\* a window test that forgets the end of the window
InWindow_NoEnd(paper, from, to, category_set) ==
    /\ from <= paper.published
    /\ category_set = {} \/ category_set \cap paper.categories # {}

\* lines 82-83: start_date <= paper.published <= end_date and the category test
InWindow(paper, from, to, category_set) ==
    /\ from <= paper.published
    /\ paper.published <= to
    /\ category_set = {} \/ category_set \cap paper.categories # {}

\* lines 81-84: the papers of a page that are appended to matching_papers
Matching(page, from, to, category_set) ==
    SelectSeq(page, LAMBDA paper : InWindow(paper, from, to, category_set))

\* a merge into a list instead of a dict
RECURSIVE MergePapers_List(_, _)
MergePapers_List(all, found) ==
    IF found = <<>> THEN all
    ELSE MergePapers_List(Append(all, [key |-> found[1].arxiv_id, val |-> found[1]]),
                          Tail(found))

\* lines 47-48: for paper in papers: all_papers[paper.arxiv_id] = paper
RECURSIVE MergePapers(_, _)
MergePapers(all, found) ==
    IF found = <<>> THEN all
    ELSE MergePapers(DictSet(all, found[1].arxiv_id, found[1]), Tail(found))

\* list(all_papers.values())
DictValues(d) == [k \in 1..Len(d) |-> d[k].val]

\* fetch_arxiv_papers, lines 35-42
FetchEnter ==
    /\ pc = "call_fetch"
    /\ start_date' = Now - days_start
    /\ end_date' = Now - days_end
    /\ all_papers' = <<>>
    /\ topic_idx' = 1
    /\ pc' = "topic_loop"
    /\ UNCHANGED <<i, results, calls, filterVars, scoreVars, flowVars, analyzeVars, statusVars, fetchArgs, batch_num, offset,
                   matching_papers, requests, overwrote, last_page, served>>

\* line 45: the call of _search_arxiv_with_date_range, lines 69-71
SearchEnter ==
    /\ pc = "topic_loop"
    /\ topic_idx <= Len(topics)
    /\ matching_papers' = <<>>
    /\ offset' = 0
    /\ batch_num' = 0
    /\ pc' = "search_loop"
    /\ UNCHANGED <<i, results, calls, filterVars, scoreVars, flowVars, analyzeVars, statusVars, fetchArgs, start_date,
                   end_date, all_papers, topic_idx, requests, overwrote, last_page, served>>

\* a loop that stops at the first page reaching below the END of the window
SearchPage_StopAtEnd ==
    /\ pc = "search_loop"
    /\ batch_num < max_batches
    /\ \E page \in Pages :
         /\ requests' = Append(requests, [topic |-> topic_idx, start |-> offset])
         /\ last_page' = page
         /\ served' = served \cup ServedInWindow(page)
         /\ batch_num' = batch_num + 1
         /\ IF page = <<>>
            THEN /\ pc' = "search_done"
                 /\ UNCHANGED <<matching_papers, offset>>
            ELSE /\ matching_papers' =
                        matching_papers \o Matching(page, start_date, end_date, categories)
                 /\ IF OldestInBatch(page) < end_date
                    THEN pc' = "search_done" /\ UNCHANGED offset
                    ELSE pc' = "search_loop" /\ offset' = offset + PageSize
    /\ UNCHANGED <<i, results, calls, filterVars, scoreVars, flowVars, analyzeVars, statusVars, fetchArgs, start_date,
                   end_date, all_papers, topic_idx, overwrote>>

\* a loop that tests the oldest paper before it collects the page: the papers
\* of the stopping page are lost
SearchPage_DropLast ==
    /\ pc = "search_loop"
    /\ batch_num < max_batches
    /\ \E page \in Pages :
         /\ requests' = Append(requests, [topic |-> topic_idx, start |-> offset])
         /\ last_page' = page
         /\ served' = served \cup ServedInWindow(page)
         /\ batch_num' = batch_num + 1
         /\ IF page = <<>>
            THEN /\ pc' = "search_done"
                 /\ UNCHANGED <<matching_papers, offset>>
            ELSE IF OldestInBatch(page) < start_date
                 THEN pc' = "search_done" /\ UNCHANGED <<matching_papers, offset>>
                 ELSE /\ matching_papers' =
                             matching_papers \o Matching(page, start_date, end_date, categories)
                      /\ pc' = "search_loop"
                      /\ offset' = offset + PageSize
    /\ UNCHANGED <<i, results, calls, filterVars, scoreVars, flowVars, analyzeVars, statusVars, fetchArgs, start_date,
                   end_date, all_papers, topic_idx, overwrote>>

\* a loop that runs one page past the cap
SearchPage_OneMore ==
    /\ pc = "search_loop"
    /\ batch_num <= max_batches
    /\ \E page \in Pages :
         /\ requests' = Append(requests, [topic |-> topic_idx, start |-> offset])
         /\ last_page' = page
         /\ served' = served \cup ServedInWindow(page)
         /\ batch_num' = batch_num + 1
         /\ IF page = <<>>
            THEN /\ pc' = "search_done"
                 /\ UNCHANGED <<matching_papers, offset>>
            ELSE /\ matching_papers' =
                        matching_papers \o Matching(page, start_date, end_date, categories)
                 /\ IF OldestInBatch(page) < start_date
                    THEN pc' = "search_done" /\ UNCHANGED offset
                    ELSE pc' = "search_loop" /\ offset' = offset + PageSize
    /\ UNCHANGED <<i, results, calls, filterVars, scoreVars, flowVars, analyzeVars, statusVars, fetchArgs, start_date,
                   end_date, all_papers, topic_idx, overwrote>>

\* one iteration of the loop of _search_arxiv_with_date_range, lines 73-89
SearchPage ==
    /\ pc = "search_loop"
    /\ batch_num < max_batches
    /\ \E page \in Pages :
         /\ requests' = Append(requests, [topic |-> topic_idx, start |-> offset])
         /\ last_page' = page
         /\ served' = served \cup ServedInWindow(page)
         /\ batch_num' = batch_num + 1
         /\ IF page = <<>>
            THEN /\ pc' = "search_done"
                 /\ UNCHANGED <<matching_papers, offset>>
            ELSE /\ matching_papers' =
                        matching_papers \o Matching(page, start_date, end_date, categories)
                 /\ IF OldestInBatch(page) < start_date
                    THEN pc' = "search_done" /\ UNCHANGED offset
                    ELSE pc' = "search_loop" /\ offset' = offset + PageSize
    /\ UNCHANGED <<i, results, calls, filterVars, scoreVars, flowVars, analyzeVars, statusVars, fetchArgs, start_date,
                   end_date, all_papers, topic_idx, overwrote>>

\* the loop of _search_arxiv_with_date_range has run max_batches times: line 91
SearchExhausted ==
    /\ pc = "search_loop"
    /\ batch_num >= max_batches
    /\ pc' = "search_done"
    /\ UNCHANGED <<i, results, calls, filterVars, scoreVars, flowVars, analyzeVars, statusVars, fetchArgs, start_date,
                   end_date, all_papers, topic_idx, batch_num, offset, matching_papers,
                   requests, overwrote, last_page, served>>

\* fetch_arxiv_papers, lines 46-48: merge the topic's papers, go to the next topic
MergeTopic ==
    /\ pc = "search_done"
    /\ LET merged == MergePapers(all_papers, matching_papers)
       IN /\ all_papers' = merged
          /\ overwrote' = (overwrote \/ Len(merged) < Len(all_papers) + Len(matching_papers))
    /\ topic_idx' = topic_idx + 1
    /\ last_page' = <<>>
    /\ pc' = "topic_loop"
    /\ UNCHANGED <<i, results, calls, filterVars, scoreVars, flowVars, analyzeVars, statusVars, fetchArgs, start_date,
                   end_date, batch_num, offset, matching_papers, requests, served>>

\* fetch_arxiv_papers, lines 50-57
FetchReturn ==
    /\ pc = "topic_loop"
    /\ topic_idx > Len(topics)
    /\ papers' = DictValues(all_papers)
    /\ pc' = "fetched"
    /\ UNCHANGED <<i, results, calls, batch_size, total_batches, failed_batches,
                   filter_result, scoreVars, fetchVars, flowVars, analyzeVars, statusVars>>

\* ------------------------------------------------- filter_papers on its own
IdleScore ==
    /\ relevant_papers = <<>>
    /\ scorer_batch_size = 1
    /\ score_result = <<>>
    /\ top_papers = <<>>

IdleFetch ==
    /\ days_start = 1
    /\ days_end = 1
    /\ categories = {}
    /\ topics = <<>>
    /\ max_batches = 1
    /\ start_date = 0
    /\ end_date = 0
    /\ all_papers = <<>>
    /\ topic_idx = 1
    /\ batch_num = 0
    /\ offset = 0
    /\ matching_papers = <<>>
    /\ requests = <<>>
    /\ overwrote = FALSE
    /\ last_page = <<>>
    /\ served = {}

IdleAnalyze ==
    /\ initial_score = 1
    /\ paper_content = ""
    /\ analyzer_reply = NoReply
    /\ analysis = NoAnalysis

IdleStatus ==
    /\ status_args = NoStatusArgs
    /\ status_message = <<>>

IdleFlow ==
    /\ email_configured = FALSE
    /\ webhook_configured = FALSE
    /\ score_threshold = ConfigScoreThreshold
    /\ max_items = ConfigMaxItems
    /\ notifications = <<>>
    /\ returned = <<>>

InitFilter ==
    /\ pc = "call_filter"
    /\ \E n \in 0..MaxPapers : papers = PaperList(n)
    /\ batch_size \in 1..MaxBatchSize
    /\ i = 0
    /\ results = <<>>
    /\ total_batches = 0
    /\ failed_batches = 0
    /\ filter_result = NoResult
    /\ calls = <<>>
    /\ IdleScore
    /\ IdleFetch
    /\ IdleStatus
    /\ IdleAnalyze
    /\ IdleFlow

NextFilter == FilterEnter \/ FilterLoop \/ FilterReturn

SpecFilter == InitFilter /\ [][NextFilter]_vars

\* -------------------------------------------------- score_papers on its own
IdleFilter ==
    /\ papers = <<>>
    /\ batch_size = 1
    /\ total_batches = 0
    /\ failed_batches = 0
    /\ filter_result = NoResult

InitScore ==
    /\ pc = "call_score"
    /\ \E n \in 0..MaxPapers : relevant_papers = PaperList(n)
    /\ scorer_batch_size \in 1..MaxBatchSize
    /\ i = 0
    /\ results = <<>>
    /\ calls = <<>>
    /\ score_result = <<>>
    /\ top_papers = <<>>
    /\ IdleFilter
    /\ IdleFetch
    /\ IdleStatus
    /\ IdleAnalyze
    /\ IdleFlow

NextScore == ScoreEnter \/ ScoreLoop \/ ScoreReturn

SpecScore == InitScore /\ [][NextScore]_vars

\* ----------------------- the two batched stages, each called on its own
\* A call of filter_papers or a call of score_papers (the same loop, written
\* twice in the source).
InitStages == InitFilter \/ InitScore

NextStages == NextFilter \/ NextScore

SpecStages == InitStages /\ [][NextStages]_vars

\* ------------------- run_workflow from the call of score_papers, line 84, on
\* The state at line 84 of a run whose filter kept every paper and had no
\* failed batch.
InitSelect ==
    /\ pc = "call_score"
    /\ \E n \in 1..MaxPapers :
         /\ papers = PaperList(n)
         /\ relevant_papers = PaperList(n)
         /\ batch_size = MaxBatchSize
         /\ total_batches = CeilDiv(n, MaxBatchSize)
         /\ filter_result = [papers |-> [k \in 1..n |-> FilteredPaper(k, TRUE)],
                             total_batches |-> CeilDiv(n, MaxBatchSize),
                             failed_batches |-> 0]
         /\ calls = [k \in 1..CeilDiv(n, MaxBatchSize) |->
                        [stage |-> "filter", start |-> (k - 1) * MaxBatchSize,
                         raised |-> FALSE]]
         /\ results = filter_result.papers
         /\ i = CeilDiv(n, MaxBatchSize) * MaxBatchSize
    /\ failed_batches = 0
    /\ scorer_batch_size \in 1..MaxBatchSize
    /\ score_result = <<>>
    /\ top_papers = <<>>
    /\ email_configured = FALSE
    /\ webhook_configured \in BOOLEAN
    /\ score_threshold \in ThresholdChoices
    /\ max_items \in 0..MaxItems
    /\ notifications = <<>>
    /\ returned = <<>>
    /\ IdleFetch
    /\ IdleStatus
    /\ IdleAnalyze

NextSelect == ScoreEnter \/ ScoreLoop \/ ScoreReturn \/ SelectTop

SpecSelect == InitSelect /\ [][NextSelect]_vars

\* ------------------------------------------------- analyze_paper on its own
InitAnalyze ==
    /\ pc = "call_analyze"
    /\ initial_score \in 1..100
    /\ paper_content \in {"", "text"}
    /\ analyzer_reply = NoReply
    /\ analysis = NoAnalysis
    /\ i = 0
    /\ results = <<>>
    /\ calls = <<>>
    /\ IdleFilter
    /\ IdleScore
    /\ IdleFetch
    /\ IdleStatus
    /\ IdleFlow

NextAnalyze == Analyze

SpecAnalyze == InitAnalyze /\ [][NextAnalyze]_vars

\* --------------------------------------- _build_status_message on its own
InitStatus ==
    /\ pc = "call_build"
    /\ status_args \in StatusArgs
    /\ status_message = <<>>
    /\ i = 0
    /\ results = <<>>
    /\ calls = <<>>
    /\ IdleFilter
    /\ IdleScore
    /\ IdleFetch
    /\ IdleFlow
    /\ IdleAnalyze

NextStatus == BuildMessage

SpecStatus == InitStatus /\ [][NextStatus]_vars

\* -------------------------------------------- fetch_arxiv_papers on its own
InitFetch ==
    /\ pc = "call_fetch"
    /\ days_start \in DayChoices
    /\ days_end \in DayChoices
    /\ categories \in CategoryChoices
    /\ topics \in TopicChoices
    /\ max_batches \in 1..MaxPages
    /\ start_date = 0
    /\ end_date = 0
    /\ all_papers = <<>>
    /\ topic_idx = 1
    /\ batch_num = 0
    /\ offset = 0
    /\ matching_papers = <<>>
    /\ requests = <<>>
    /\ overwrote = FALSE
    /\ last_page = <<>>
    /\ served = {}
    /\ i = 0
    /\ results = <<>>
    /\ calls = <<>>
    /\ IdleFilter
    /\ IdleScore
    /\ IdleFlow
    /\ IdleAnalyze
    /\ IdleStatus

NextFetch ==
    FetchEnter \/ SearchEnter \/ SearchPage \/ SearchExhausted \/ MergeTopic \/ FetchReturn

SpecFetch == InitFetch /\ [][NextFetch]_vars

\* ------------------------------------- properties of filter and scorer
\* the verdicts of a list that name paper p
VerdictsOf(list, p) == {k \in 1..Len(list) : list[k].paper = p}

\* C1: the verdict sequence filter_papers returns holds exactly len(papers)
\* verdicts, exactly one per input paper, whatever the replies were.
C1_Totality ==
    pc = "filtered" =>
        /\ Len(filter_result.papers) = Len(papers)
        /\ \A p \in IdsOf(papers) : Cardinality(VerdictsOf(filter_result.papers, p)) = 1

\* a step of the filter loop whose reasoning-service call raised
FilterCallRaised ==
    /\ pc = "filter_loop"
    /\ Len(calls') = Len(calls) + 1
    /\ calls'[Len(calls')].raised

\* C2: when the call for a chunk raises, filter_papers appends exactly one
\* is_relevant=true verdict per paper of the chunk, in chunk order, to the
\* verdicts recorded so far (which stay as they were), failed_batches grows by
\* exactly 1 and total_batches keeps its value ceil(len(papers)/batch_size);
\* the run goes on to the next chunk, and every paper has a verdict at the end.
C2_FallbackOnRaise ==
    /\ [][FilterCallRaised =>
            LET batch == Slice(papers, i, batch_size) IN
            /\ results' = results \o [k \in 1..Len(batch) |-> FilteredPaper(batch[k], TRUE)]
            /\ failed_batches' = failed_batches + 1
            /\ total_batches' = total_batches
            /\ total_batches = CeilDiv(Len(papers), batch_size)
            /\ pc' = "filter_loop"
            /\ i' = i + batch_size]_vars
    /\ [](pc = "filtered" =>
            /\ \A p \in IdsOf(papers) : VerdictsOf(filter_result.papers, p) # {}
            /\ filter_result.total_batches = CeilDiv(Len(papers), batch_size)
            /\ filter_result.failed_batches >=
                   Cardinality({k \in 1..Len(calls) : calls[k].raised}))

\* two chunks, only the second call raised: its paper got the fallback verdict
\* and the failure was counted once
C2_Witness ==
    /\ pc = "filtered"
    /\ papers = <<1, 2>>
    /\ batch_size = 1
    /\ calls = <<[stage |-> "filter", start |-> 0, raised |-> FALSE],
                 [stage |-> "filter", start |-> 1, raised |-> TRUE]>>
    /\ filter_result.total_batches = 2
    /\ filter_result.failed_batches = 1
    /\ filter_result.papers = <<FilteredPaper(1, FALSE), FilteredPaper(2, TRUE)>>

\* C3: every ScoredPaper score_papers builds and returns has 1 <= score <= 100,
\* whether parsed and clamped, defaulted, or the fallback 50.
C3_ScoreBound ==
    /\ pc \in {"score_loop", "scored"} =>
           \A k \in 1..Len(results) : results[k].score \in 1..100
    /\ pc = "scored" =>
           \A k \in 1..Len(score_result) : score_result[k].score \in 1..100

\* a returned list holding a score clamped from above, one clamped from below
\* (the replies carry no in-range integer) and, in another run, the default
C3_Witness ==
    /\ pc = "scored"
    /\ Len(score_result) = 2
    /\ score_result[1].score = 100
    /\ score_result[2].score = 1

\* ------------------------------ run_workflow up to the call of score_papers
Init ==
    /\ pc = "start"
    /\ email_configured \in BOOLEAN
    /\ webhook_configured \in BOOLEAN
    /\ score_threshold = ConfigScoreThreshold
    /\ max_items = ConfigMaxItems
    /\ notifications = <<>>
    /\ returned = <<>>
    /\ batch_size \in 1..MaxBatchSize
    /\ papers = <<>>
    /\ total_batches = 0
    /\ failed_batches = 0
    /\ filter_result = NoResult
    /\ i = 0
    /\ results = <<>>
    /\ calls = <<>>
    /\ IdleScore
    /\ IdleFetch
    /\ IdleStatus
    /\ IdleAnalyze

\* run_workflow from its first line to the entry of score_papers; SpecSelect
\* follows it from there
Next ==
    \/ Discover
    \/ ReportNoPapers
    \/ FilterEnter
    \/ FilterLoop
    \/ FilterReturn
    \/ CollectRelevant
    \/ ReportNoRelevant
    \/ ScoreEnter

Spec == Init /\ [][Next]_vars

\* ------------------------------------------- properties of the whole run
\* sel is a threshold selection out of the verdicts scored: four properties
IsThresholdSelection(sel, scored, threshold, limit) ==
    LET qualifying == {k \in 1..Len(scored) : scored[k].score >= threshold}
    IN /\ \A k \in 1..Len(sel) : sel[k].score >= threshold
       /\ \A k \in 1..Len(sel) - 1 : sel[k].score >= sel[k + 1].score
       /\ Len(sel) = Min(limit, Cardinality(qualifying))
       /\ \E pick \in SUBSET qualifying :
            /\ Cardinality(pick) = Len(sel)
            /\ \A k \in 1..Len(sel) : \E j \in pick : scored[j] = sel[k]
            /\ \A j \in qualifying \ pick, k \in 1..Len(sel) : scored[j].score <= sel[k].score

\* C4: ThresholdSelect.  Once score_papers has returned its verdicts, the next
\* step of run_workflow selects the candidates for analysis: top_papers is the
\* first max_items of the verdicts with score >= score_threshold in descending
\* score order (every selected score >= threshold, non-increasing, count =
\* min(max_items, number of qualifying verdicts), no unselected qualifying
\* verdict scoring strictly more than a selected one).
C4_ThresholdSelect ==
    [][pc = "scored" =>
          /\ pc' # "AttributeError"
          /\ top_papers' = TopPapers(score_result, score_threshold, max_items)
          /\ IsThresholdSelection(top_papers', score_result, score_threshold, max_items)]_vars

RequestsFor(t) == {k \in 1..Len(requests) : requests[k].topic = t}

\* the steps fetch_arxiv_papers has left at most: max_batches + 4 for a topic
\* not yet searched, nothing once it has returned
StepsLeft ==
    LET perTopic == max_batches + 4
        later == (Len(topics) - topic_idx) * perTopic
    IN CASE pc = "call_fetch" -> Len(topics) * perTopic + 2
         [] pc = "topic_loop" -> later + perTopic + 1
         [] pc = "search_loop" -> later + (max_batches - batch_num) + 3
         [] pc = "search_done" -> later + 2
         [] OTHER -> 0

\* fetch_arxiv_papers has returned or can take a step (a page can be requested
\* whenever the loop has iterations left: the corpus always answers; the merge
\* of a finished topic has no condition)
CanStep ==
    \/ pc = "fetched"
    \/ ENABLED FetchEnter
    \/ ENABLED SearchEnter
    \/ pc = "search_loop" /\ batch_num < max_batches /\ Pages # {}
    \/ ENABLED SearchExhausted
    \/ pc = "search_done"
    \/ ENABLED FetchReturn

\* C5: Pagination termination.  Whatever pages the corpus returns, no topic is
\* ever asked for more than max_batches pages, and fetch_arxiv_papers returns
\* after a bounded number of steps: until it has returned a step is always
\* possible, and every step lowers the non-negative count StepsLeft.
C5_PaginationTerminates ==
    /\ [](\A t \in 1..Len(topics) : Cardinality(RequestsFor(t)) <= max_batches)
    /\ [](StepsLeft >= 0 /\ CanStep)
    /\ [][StepsLeft' < StepsLeft]_vars

\* a topic whose every page was full of in-window papers stopped at the cap
C5_Witness ==
    /\ pc = "search_done"
    /\ max_batches = MaxPages
    /\ Cardinality(RequestsFor(topic_idx)) = MaxPages
    /\ Len(matching_papers) = MaxPages * PageLen
    /\ offset = MaxPages * PageSize

InsideWindow(paper) ==
    /\ Now - days_start <= paper.published
    /\ paper.published <= Now - days_end
    /\ categories # {} => paper.categories \cap categories # {}

\* C6: Window containment.  Every paper fetch_arxiv_papers collects or returns
\* was published within [now - days_start, now - days_end], both ends included,
\* and carries a category of the filter when a category filter is given.
C6_WindowContainment ==
    /\ \A k \in 1..Len(matching_papers) : InsideWindow(matching_papers[k])
    /\ \A k \in 1..Len(all_papers) : InsideWindow(all_papers[k].val)
    /\ pc = "fetched" => \A k \in 1..Len(papers) : InsideWindow(papers[k])

\* the result holds a paper published at each end of the window
C6_Witness ==
    /\ pc = "fetched"
    /\ days_start > days_end
    /\ \E k \in 1..Len(papers) : papers[k].published = Now - days_start
    /\ \E k \in 1..Len(papers) : papers[k].published = Now - days_end

\* C7: Dedup.  The list fetch_arxiv_papers returns holds each arxiv_id at most
\* once, and so does the map it is built from, also when an identity came up
\* more than once.
C7_Dedup ==
    /\ Cardinality(DictKeys(all_papers)) = Len(all_papers)
    /\ pc = "fetched" =>
          \A j, k \in 1..Len(papers) : papers[j].arxiv_id = papers[k].arxiv_id => j = k

\* two topics were searched, some identity came up again, two papers returned
C7_Witness ==
    /\ pc = "fetched"
    /\ overwrote
    /\ Len(topics) = 2
    /\ Cardinality(RequestsFor(2)) > 0
    /\ Len(papers) = 2

\* the channels _send_status_notifications finds configured, in its order
ConfiguredChannels ==
    (IF email_configured THEN <<"email">> ELSE <<>>)
    \o (IF webhook_configured THEN <<"webhook">> ELSE <<>>)

\* notes is one status notification per configured channel, each carrying a
\* message whose first line is reason
StatusSentTo(notes, reason) ==
    /\ Len(notes) = Len(ConfiguredChannels)
    /\ \A k \in 1..Len(notes) :
         /\ notes[k].channel = ConfiguredChannels[k]
         /\ notes[k].kind = "status"
         /\ notes[k].message[1].text = reason

\* C8: Empty discovery.  When fetch_arxiv_papers returns no paper, run_workflow
\* goes to the status report: each configured notification collaborator is
\* handed the status message "No papers found from arxiv ..." (never a
\* digest), the workflow returns the empty list and stops, and no
\* reasoning-service call (filter, scorer, analyzer) has been issued.
C8_EmptyDiscovery ==
    /\ [][pc = "start" /\ papers' = <<>> => pc' = "report_no_papers"]_vars
    /\ [][pc = "report_no_papers" =>
             /\ pc' = "returned"
             /\ returned' = <<>>
             /\ calls' = <<>>
             /\ StatusSentTo(notifications',
                    "No papers found from arxiv for the specified search criteria.")]_vars
    /\ [](pc = "returned" /\ papers = <<>> =>
             /\ calls = <<>>
             /\ \A k \in 1..Len(notifications) : notifications[k].kind = "status"
             /\ ~ENABLED Next)

C8_Witness ==
    /\ pc = "returned"
    /\ papers = <<>>
    /\ Len(notifications) = 2
    /\ notifications[1].channel = "email"
    /\ ~notifications[1].success
    /\ notifications[2].channel = "webhook"
    /\ notifications[2].message = NoPapersMessage
    /\ returned = <<>>

NoRelevantVerdict ==
    \A k \in 1..Len(filter_result.papers) : ~filter_result.papers[k].is_relevant

\* C9: Filter-empty short-circuit.  When no verdict of the filter is relevant,
\* run_workflow goes to the status report: each configured collaborator is
\* handed a status message, the workflow returns the empty list and stops; the
\* scorer is never entered, no reasoning-service call other than the filter's
\* has been issued, and no digest notification is sent.
C9_FilterEmpty ==
    /\ [][pc = "filtered" /\ NoRelevantVerdict =>
             pc' = "report_no_relevant" /\ relevant_papers' = <<>>]_vars
    /\ [][pc = "report_no_relevant" =>
             /\ pc' = "returned"
             /\ returned' = <<>>
             /\ calls' = calls
             /\ StatusSentTo(notifications', "No papers passed the relevance filter.")]_vars
    /\ [](pc = "returned" /\ papers # <<>> =>
             /\ NoRelevantVerdict
             /\ \A k \in 1..Len(calls) : calls[k].stage = "filter"
             /\ \A k \in 1..Len(notifications) : notifications[k].kind = "status"
             /\ score_result = <<>>
             /\ top_papers = <<>>
             /\ ~ENABLED Next)

C9_Witness ==
    /\ pc = "returned"
    /\ papers = <<1, 2>>
    /\ batch_size = 1
    /\ Len(calls) = 2
    /\ filter_result.papers = <<FilteredPaper(1, FALSE), FilteredPaper(2, FALSE)>>
    /\ notifications =
          <<SendStatusWebhook(BuildStatusMessage(NoRelevantReason, 2, 0, 2, 0, 0), TRUE)>>
    /\ returned = <<>>

\* C10: Successful path to Done.  After score_papers has returned, run_workflow
\* goes on to the selection and from there to the analysis and the digest, or
\* to the status report: it does not end in an exception of its own.
C10_PathToDone == pc # "AttributeError"

\* C11: the scorer is a BatchOutcome-producing stage.  The value score_papers
\* returns carries, next to the verdicts (papers), the counters total_batches
\* and failed_batches that run_workflow reads after scoring.
C11_ScorerOutcome ==
    pc = "scored" => {"papers", "total_batches", "failed_batches"} \subseteq ScoreResultFields

\* message has a line of the given text
HasLine(message, text) == \E k \in 1..Len(message) : message[k].text = text

\* message states that total papers were discovered
StatesTotal(message, total) ==
    \E k \in 1..Len(message) :
        message[k].text = "Papers fetched from arxiv: {a}" /\ message[k].a = total

\* every notification sent is a status message that states the total
AllStateTotal(notes, total) ==
    \A k \in 1..Len(notes) : notes[k].kind = "status" /\ StatesTotal(notes[k].message, total)

\* C12: Reporting content.  On each empty-output transition (empty discovery,
\* empty relevant set, empty selection) the run ends by handing each configured
\* channel a status message that states the number of papers discovered, and
\* that names the failed/total batches of the filter when some filter batch
\* failed.
C12_ReportingContent ==
    /\ [][pc = "report_no_papers" =>
             /\ pc' = "returned"
             /\ Len(notifications') = Len(ConfiguredChannels)
             /\ AllStateTotal(notifications', 0)]_vars
    /\ [][pc = "report_no_relevant" =>
             /\ pc' = "returned"
             /\ Len(notifications') = Len(ConfiguredChannels)
             /\ AllStateTotal(notifications', Len(papers))]_vars
    /\ [][pc = "scored" /\ TopPapers(score_result, score_threshold, max_items) = <<>> =>
             /\ pc' = "returned"
             /\ Len(notifications') = Len(ConfiguredChannels)
             /\ AllStateTotal(notifications', Len(papers))
             /\ filter_result.failed_batches > 0 =>
                   \A k \in 1..Len(notifications') :
                       HasLine(notifications'[k].message,
                               "Filter errors: {a}/{b} batches failed")]_vars

\* the reasoning-service calls the analyzer has issued
AnalyzerCalls == SelectSeq(calls, LAMBDA c : c.stage = "analyzer")

\* C13: Analyze x N isolation.  Once the run is past the scorer, every candidate
\* of the selection (the first max_items verdicts at or above the threshold)
\* has been analyzed exactly once, and the digest returned holds one entry per
\* selected candidate.
C13_AnalyzeEach ==
    pc \notin {"call_score", "score_loop", "scored", "ValidationError"} =>
        LET selected == TopPapers(score_result, score_threshold, max_items)
        IN /\ Len(AnalyzerCalls) = Len(selected)
           /\ Len(returned) = Len(selected)

\* C14: Analyzer fallback.  When the call of analyze_paper raised, or its reply
\* holds no decodable JSON object, the Analysis returned has score =
\* initial_score, justification = "Analysis failed", summary = a prefix of the
\* abstract, affiliations = the joined author list and feedback = the feedback
\* summary.
C14_AnalyzerFallback ==
    pc = "analyzed" /\ analyzer_reply.kind \in {"raise", "text"} =>
        /\ analysis.score = initial_score
        /\ analysis.score_justification = "Analysis failed"
        /\ analysis.summary = "paper.abstract[:200]"
        /\ analysis.authors_affiliations = "paper.authors joined"
        /\ analysis.community_feedback = "community_feedback.feedback_summary"

\* C15: parse failure is handled like transport failure.  For the chunk
\* filter_papers is about to send, a reply whose text cannot be decoded as an
\* array gives what a raised call gives: the fallback verdict for every paper
\* of the chunk and a failure to count.
C15_ParseFailureCounted ==
    pc = "filter_loop" /\ i < Len(papers) =>
        LET batch == Slice(papers, i, batch_size)
            undecodable == FilterBatch([kind |-> "text", entries |-> <<>>], batch)
            raised == FilterBatch([kind |-> "raise", entries |-> <<>>], batch)
        IN /\ undecodable.map = FilterFallbackMap(batch)
           /\ undecodable.failed
           /\ undecodable = raised

\* ------------------------------ properties of the two stages side by side
\* the verdicts a step appended to results
Appended == SubSeq(results', Len(results) + 1, Len(results'))

\* a step of either loop kept the verdicts recorded so far and appended
\* exactly one verdict per paper of the chunk, and none for any other paper
ChunkLocal(chunk) ==
    /\ Len(results') >= Len(results)
    /\ SubSeq(results', 1, Len(results)) = results
    /\ Len(Appended) = Len(chunk)
    /\ \A p \in IdsOf(chunk) : Cardinality(VerdictsOf(Appended, p)) = 1

\* C16: chunk-local matching.  An iteration of filter_papers or score_papers
\* that goes on to the next chunk has accepted only the entries that name a
\* paper of the chunk it sent: the verdicts it appended are one per paper of
\* that chunk; an entry naming no paper, or a paper of another chunk, added
\* nothing.
C16_ChunkLocal ==
    /\ [][pc = "filter_loop" /\ i' # i => ChunkLocal(Slice(papers, i, batch_size))]_vars
    /\ [][pc = "score_loop" /\ i' # i =>
             ChunkLocal(Slice(relevant_papers, i, scorer_batch_size))]_vars

\* the ids a reply's entries name
Covered(entries) == {entries[k].id : k \in 1..Len(entries)}

\* the last entry of a reply that names paper p
LastEntry(entries, p) ==
    entries[CHOOSE k \in 1..Len(entries) :
                /\ entries[k].id = p
                /\ \A m \in (k + 1)..Len(entries) : entries[m].id # p]

\* the well-formed replies to a chunk that leave some of its papers out: an
\* array of objects, each naming a paper of the chunk and carrying a boolean
FilterShortResponses(batch) ==
    {[kind |-> "array", entries |-> e] :
        e \in {x \in SeqsUpTo([kind : {"obj"}, id : IdsOf(batch),
                               is_relevant : {"true", "false"}],
                              Len(batch) + ExtraEntries) : Covered(x) # IdsOf(batch)}}

\* the same for the scorer: each entry carries an integer score and a string
ScoreShortResponses(batch) ==
    {[kind |-> "array", entries |-> e] :
        e \in {x \in SeqsUpTo([kind : {"obj"}, id : IdsOf(batch), score_kind : {"int"},
                               score : RawScores, justification : {"str"}],
                              Len(batch) + ExtraEntries) : Covered(x) # IdsOf(batch)}}

\* what an iteration of filter_papers appends for a reply to a chunk
FilterAppends(response, batch) ==
    LET out == FilterBatch(response, batch)
    IN FilterKnownEntries(out.map, papers) \o FilterMissing(out.map, batch)

\* what an iteration of score_papers appends for a reply to a chunk
ScoreAppends(response, batch) ==
    LET map == ScoreBatch(response, batch)
    IN ScoreKnownEntries(map, relevant_papers) \o ScoreMissing(map, batch)

\* C17: per-item fallback on a short response.  When the reply to a chunk is a
\* decodable array that names only some papers of the chunk, the iteration
\* appends one verdict per paper of the chunk: the parsed verdict (boolean, or
\* clamped score) for a paper the reply names, the stage fallback (relevant, or
\* score 50) for a paper it leaves out; the batch is not counted as failed, and
\* an iteration that appended a parsed "irrelevant" verdict left failed_batches
\* alone.  score_papers never touches the counter.
C17_ShortResponse ==
    /\ [](pc = "filter_loop" /\ i < Len(papers) =>
            LET batch == Slice(papers, i, batch_size) IN
            \A response \in FilterShortResponses(batch) :
                LET new == FilterAppends(response, batch) IN
                /\ \A k \in 1..Len(response.entries) :
                       response.entries[k] \in FilterEntries(Len(papers))
                /\ ~FilterBatch(response, batch).failed
                /\ ~FilterValidationError(FilterBatch(response, batch).map, papers)
                /\ Len(new) = Len(batch)
                /\ \A p \in IdsOf(batch) : \E k \in 1..Len(new) :
                       /\ new[k].paper = p
                       /\ new[k].is_relevant =
                              IF p \in Covered(response.entries)
                              THEN LastEntry(response.entries, p).is_relevant = "true"
                              ELSE TRUE)
    /\ [](pc = "score_loop" /\ i < Len(relevant_papers) =>
            LET batch == Slice(relevant_papers, i, scorer_batch_size) IN
            \A response \in ScoreShortResponses(batch) :
                LET new == ScoreAppends(response, batch) IN
                /\ \A k \in 1..Len(response.entries) :
                       response.entries[k] \in ScoreEntries(Len(relevant_papers))
                /\ ~ScoreValidationError(ScoreBatch(response, batch), relevant_papers)
                /\ Len(new) = Len(batch)
                /\ \A p \in IdsOf(batch) : \E k \in 1..Len(new) :
                       /\ new[k].paper = p
                       /\ new[k].score =
                              IF p \in Covered(response.entries)
                              THEN Clamp(LastEntry(response.entries, p).score)
                              ELSE DefaultScore)
    /\ [][pc = "filter_loop" /\ (\E k \in 1..Len(Appended) : ~Appended[k].is_relevant)
              => failed_batches' = failed_batches]_vars
    /\ [][pc = "score_loop" => failed_batches' = failed_batches]_vars

\* one chunk of two papers got a reply naming the first only: the first has its
\* parsed verdict, the second the fallback, and no failure was counted
C17_Witness ==
    /\ pc = "filter_loop"
    /\ papers = <<1, 2>>
    /\ batch_size = 2
    /\ i = 2
    /\ Len(calls) = 1
    /\ failed_batches = 0
    /\ results = <<FilteredPaper(1, FALSE), FilteredPaper(2, TRUE)>>
    /\ \E response \in FilterShortResponses(papers) :
           /\ Covered(response.entries) = {1}
           /\ results = FilterAppends(response, papers)

\* ------------------------------------------ properties of the scorer alone
\* a reply that is an array of objects, each naming a different paper of the
\* chunk and carrying a string justification; the scores are of any kind
NamesChunkOnce(response, batch) ==
    /\ response.kind = "array"
    /\ \A k \in 1..Len(response.entries) :
           /\ response.entries[k].kind = "obj"
           /\ response.entries[k].id \in IdsOf(batch)
           /\ response.entries[k].justification = "str"
    /\ \A k, m \in 1..Len(response.entries) :
           response.entries[k].id = response.entries[m].id => k = m

\* C18: per-entry score default.  In the reply to a chunk, an entry whose score
\* is absent or is no number gives its paper the score 50, and every entry with
\* an integer score gives its paper that score, clamped: the default is applied
\* to the entry, not to the chunk.
C18_PerEntryDefault ==
    pc = "score_loop" /\ i < Len(relevant_papers) =>
        LET batch == Slice(relevant_papers, i, scorer_batch_size) IN
        \A response \in ScoreResponses(Len(relevant_papers), Len(batch)) :
            NamesChunkOnce(response, batch) =>
                LET new == ScoreAppends(response, batch) IN
                \A k \in 1..Len(response.entries) : \E m \in 1..Len(new) :
                    /\ new[m].paper = response.entries[k].id
                    /\ new[m].score =
                           IF response.entries[k].score_kind = "int"
                           THEN Clamp(response.entries[k].score)
                           ELSE DefaultScore

\* the place of paper p in the list submitted to score_papers
Submitted(p) == CHOOSE k \in 1..Len(relevant_papers) : relevant_papers[k] = p

\* C19: stable tie order.  In the list score_papers returns, two verdicts with
\* the same score stand in the order in which their papers were submitted,
\* whatever the order of the entries in the replies.
C19_StableTies ==
    pc = "scored" =>
        \A j, k \in 1..Len(score_result) :
            j < k /\ score_result[j].score = score_result[k].score =>
                Submitted(score_result[j].paper) <= Submitted(score_result[k].paper)

\* ------------------------------------ the two stages side by side, again
\* a call of a stage has ended by raising
StageRaised == pc \in {"ValidationError"}

\* C20: the stages never raise.  Whatever the reasoning service does (raise,
\* reply with text that is no JSON, with JSON of another shape, with entries
\* that lack fields or carry null or wrongly typed values), filter_papers and
\* score_papers go on to the next chunk and return their result.
C20_StagesNeverRaise ==
    /\ [](~StageRaised)
    /\ [][(pc = "filter_loop" \/ pc = "score_loop") =>
              pc' \in {"filter_loop", "score_loop", "filtered", "scored"}]_vars

\* the stage a state belongs to, its input and its chunk size
StageItems == IF Len(papers) > 0 THEN papers ELSE relevant_papers
StageBatchSize == IF Len(papers) > 0 THEN batch_size ELSE scorer_batch_size

\* the calls were issued one per chunk, in chunk order
CallsInChunkOrder ==
    \A k \in 1..Len(calls) : calls[k].start = (k - 1) * StageBatchSize

\* a call of a stage is over: it returned, or it raised
StageOver == pc \in {"filtered", "scored", "ValidationError"}

\* C21: failure isolation across chunks.  A stage issues its calls one per
\* chunk of batch_size papers, in chunk order; a call that raised is followed by
\* the call for the next chunk; and when the stage is over it has issued
\* ceil(len(items)/batch_size) calls.
C21_FailureIsolation ==
    /\ [](CallsInChunkOrder)
    /\ [][Len(calls') = Len(calls) + 1 /\ calls'[Len(calls')].raised =>
              /\ i' = i + StageBatchSize
              /\ pc' = pc]_vars
    /\ [](StageOver =>
              /\ Len(calls) * StageBatchSize >= Len(StageItems)
              /\ (Len(calls) - 1) * StageBatchSize < Len(StageItems))

\* ------------------------------------------ properties of the filter alone
\* t is ceil(n / size), said without a division
IsCeil(t, n, size) == t * size >= n /\ (t - 1) * size < n

\* C22: counter invariant of filter_papers.  Once set, total_batches is
\* ceil(len(papers)/batch_size), which is 0 for an empty input, and then no
\* call is made; at every point 0 <= failed_batches <= chunks processed so far
\* <= total_batches; the FilterResult returned carries these counters.
C22_CounterInvariant ==
    /\ pc # "call_filter" => IsCeil(total_batches, Len(papers), batch_size)
    /\ papers = <<>> => calls = <<>> /\ (pc # "call_filter" => total_batches = 0)
    /\ 0 <= failed_batches
    /\ failed_batches <= Len(calls)
    /\ pc # "call_filter" => Len(calls) <= total_batches
    /\ pc = "filtered" =>
           /\ filter_result.total_batches = total_batches
           /\ filter_result.failed_batches = failed_batches
           /\ Len(calls) = total_batches

\* midway through two chunks: one processed, and it failed
C22_Witness ==
    /\ pc = "filter_loop"
    /\ papers = <<1, 2>>
    /\ batch_size = 1
    /\ i = 1
    /\ Len(calls) = 1
    /\ failed_batches = 1
    /\ total_batches = 2

\* -------------------------------------- properties of the whole run, again
\* the papers of the chunks before offset k all have a verdict in list
VerdictsRecorded(list, k) ==
    \A p \in IdsOf(SubSeq(StageItems, 1, Min(k, Len(StageItems)))) : VerdictsOf(list, p) # {}

C24_FailureCaveat ==
    pc = "built" =>
        /\ HasLine(status_message, CaveatText) <=>
               (status_args.filter_failed_batches > 0 \/ status_args.scorer_failed_batches > 0)
        /\ HasLine(status_message, CaveatText) =>
               status_message[Len(status_message)].text = CaveatText

\* the filter had no failed batch, the scorer had one: the caveat is there
C24_Witness ==
    /\ pc = "built"
    /\ status_args.filter_failed_batches = 0
    /\ status_args.scorer_failed_batches = 1
    /\ HasLine(status_message, CaveatText)
    /\ HasLine(status_message, "Scorer errors: {a}/{b} batches failed")

\* ------------------------------------------- properties of the discovery
\* the identities of a list of papers
IdsOfPapers(list) == {list[k].arxiv_id : k \in 1..Len(list)}

\* the last page ends the pagination of its topic: it is empty, or its oldest
\* paper was published before the start of the window
StoppingPage(page) ==
    page = <<>> \/ \E k \in 1..Len(page) : page[k].published < Now - days_start

\* the requests issued so far for topic t, in order
RequestSeq(t) == SelectSeq(requests, LAMBDA r : r.topic = t)

\* C25: discovery early stop.  The pages of a topic are requested at offsets 0,
\* page_size, 2*page_size, ... in order.  A page that is empty, or whose oldest
\* paper is older than the window start, ends the topic: the next request, if
\* there is one, is the first of the next topic.  The papers of that last page
\* that are inside the window were collected before the stop and are in the
\* result.
C25_EarlyStop ==
    /\ [](\A t \in 1..Len(topics) : \A k \in 1..Len(RequestSeq(t)) :
              RequestSeq(t)[k].start = (k - 1) * PageSize)
    /\ [][requests' # requests =>
              /\ requests' = Append(requests, [topic |-> topic_idx, start |-> offset])
              /\ \A k \in 1..Len(last_page') : InsideWindow(last_page'[k]) =>
                     \E m \in 1..Len(matching_papers') : matching_papers'[m] = last_page'[k]
              /\ pc' = IF StoppingPage(last_page') THEN "search_done" ELSE "search_loop"]_vars
    /\ [][pc = "search_done" =>
              /\ requests' = requests
              /\ topic_idx' = topic_idx + 1
              /\ \A m \in 1..Len(matching_papers) :
                     matching_papers[m].arxiv_id \in DictKeys(all_papers')]_vars
    /\ [][topic_idx' >= topic_idx /\ DictKeys(all_papers) \subseteq DictKeys(all_papers')]_vars
    /\ [](pc = "fetched" => IdsOfPapers(papers) = DictKeys(all_papers))

\* the first page of a topic held a paper inside the window and an older one:
\* the topic stopped after one request, below the cap, with the paper collected
C25_Witness ==
    /\ pc = "search_done"
    /\ max_batches = MaxPages
    /\ Len(RequestSeq(topic_idx)) = 1
    /\ Len(last_page) = 2
    /\ \E k \in 1..Len(last_page) : last_page[k].published < Now - days_start
    /\ \E k \in 1..Len(last_page) :
           /\ InsideWindow(last_page[k])
           /\ \E m \in 1..Len(matching_papers) : matching_papers[m] = last_page[k]

\* C26: discovery completeness.  Every paper the corpus returned that lies
\* inside the window and passes the category filter is collected, and is in the
\* list fetch_arxiv_papers returns.  A topic is left before its page cap only
\* after an empty page or a page holding a paper older than the window start:
\* when the corpus lists a topic newest first, the pages never requested hold
\* only papers older than that one, none of them inside the window.
C26_Completeness ==
    /\ [](served \subseteq IdsOfPapers(matching_papers) \cup DictKeys(all_papers))
    /\ [](pc = "fetched" => served \subseteq IdsOfPapers(papers))
    /\ [][requests' # requests /\ pc' = "search_done" /\ last_page' # <<>> =>
              \E k \in 1..Len(last_page') : last_page'[k].published < Now - days_start]_vars
    /\ [][pc = "search_loop" /\ pc' = "search_done" /\ requests' = requests =>
              batch_num = max_batches]_vars

\* a topic listed newest first over two pages: today's paper and yesterday's,
\* then the paper of two days ago and an older one; the window is [2 days ago,
\* yesterday], and both of its papers were collected
C26_Witness ==
    /\ pc = "search_done"
    /\ days_start = 2
    /\ days_end = 1
    /\ categories = {}
    /\ Len(RequestSeq(topic_idx)) = 2
    /\ last_page = <<Paper(1, Now - 2, {"cs.AI"}), Paper(3, Now - 3, {"cs.AI"})>>
    /\ matching_papers = <<Paper(2, Now - 1, {"math.CO"}), Paper(1, Now - 2, {"cs.AI"})>>
    /\ served = {1, 2}

\* ------------------------------------- properties of the whole run, third
\* C27: pipeline narrowing.  The papers handed to score_papers are papers that
\* were discovered, each of them once, and they are exactly the papers the
\* filter marked relevant: none that carries an "irrelevant" verdict is scored.
C27_Narrowing ==
    pc \in {"call_score", "score_loop"} =>
        /\ IdsOf(relevant_papers) \subseteq IdsOf(papers)
        /\ \A j, k \in 1..Len(relevant_papers) : relevant_papers[j] = relevant_papers[k] => j = k
        /\ \A k \in 1..Len(filter_result.papers) :
               filter_result.papers[k].is_relevant <=>
                   filter_result.papers[k].paper \in IdsOf(relevant_papers)

\* C28: one kind of terminal notification.  A run that returns has taken one
\* notification path, in one step, the last: here the status path, which hands
\* every configured channel the same status message, sends no digest and
\* returns the empty list.  Before that step nothing was sent, after it nothing
\* is.
C28_OneTerminalPath ==
    /\ [](pc = "returned" =>
              /\ returned = <<>>
              /\ Len(notifications) = Len(ConfiguredChannels)
              /\ \A k \in 1..Len(notifications) :
                     /\ notifications[k].kind = "status"
                     /\ notifications[k].channel = ConfiguredChannels[k]
                     /\ notifications[k].message = notifications[1].message)
    /\ [](pc # "returned" => notifications = <<>> /\ returned = <<>>)
    /\ [][pc' = "returned" => pc \in {"report_no_papers", "report_no_relevant"}]_vars
    /\ [][pc = "returned" => notifications' = notifications]_vars

\* the filter kept nothing; both channels were handed the status message and
\* the first delivery failed
C28_Witness ==
    /\ pc = "returned"
    /\ papers = <<1>>
    /\ returned = <<>>
    /\ Len(notifications) = 2
    /\ notifications[1].kind = "status" /\ notifications[1].channel = "email"
    /\ ~notifications[1].success
    /\ notifications[2].kind = "status" /\ notifications[2].channel = "webhook"
    /\ notifications[2].success

\* C29: digest rating bound.  The digest entry made of the analysis that
\* analyze_paper returned has a rating in 1..100: the rating of the reply
\* clamped to 1..100 when the reply gave a number and the analysis was built
\* from it, and the candidate's initial score in every other case.
C29_RatingBound ==
    pc = "analyzed" =>
        LET digest == AnalysisToDigest(analysis)
            parsed == ParseAnalyzerResponse(analyzer_reply)
            built == /\ analyzer_reply.kind = "object"
                     /\ parsed.exc = "none"
                     /\ parsed.data.rating_justification # "invalid"
        IN /\ digest.rating \in 1..100
           /\ IF built /\ parsed.data.rating_kind = "int"
              THEN digest.rating = Max(1, Min(100, analyzer_reply.rating))
              ELSE digest.rating = initial_score

\* the reply rated the paper 150 and the digest entry carries 100, which is not
\* the candidate's initial score
C29_Witness ==
    /\ pc = "analyzed"
    /\ analyzer_reply.kind = "object"
    /\ analyzer_reply.rating_kind = "int"
    /\ analyzer_reply.rating = 150
    /\ initial_score = 40
    /\ AnalysisToDigest(analysis).rating = 100

\* the run of run_workflow is over: it returned or it raised
RunOver == pc \in {"returned", "AttributeError", "ValidationError"}

\* how many notifications went to the channel
Attempts(channel) ==
    Cardinality({k \in 1..Len(notifications) : notifications[k].channel = channel})

\* C30: notification outcomes are only logged.  When the run is over, every
\* configured channel has been attempted exactly once and no other channel at
\* all, whatever the outcome of the other channel's delivery, and a run that
\* returned after a failed delivery returned the list it would have returned
\* otherwise.
C30_ChannelsAttempted ==
    RunOver =>
        /\ Attempts("email") = (IF email_configured THEN 1 ELSE 0)
        /\ Attempts("webhook") = (IF webhook_configured THEN 1 ELSE 0)
        /\ pc = "returned" /\ notifications = <<>> => returned = <<>>

====
